---- MODULE Spec2Model ----
(***************************************************************************)
(* A model of src/cache.py: class Cache, a folder of cached files with an  *)
(* SQLite table (key, file_name, timestamp) of the entries.                *)
(*                                                                         *)
(* The state is the table, the cache folder, the callers' source files,    *)
(* the lock of the instance, the clock and, for every calling thread, the  *)
(* position in the method it runs together with the method's locals.       *)
(* File names and paths are sequences of one-character strings, so that    *)
(* path.splitext and the f-string of _get_unique_file_name are computed    *)
(* character by character.                                                 *)
(*                                                                         *)
(* Environment: the metadata store and the filesystem are the external     *)
(* collaborators of the engine. sqlite3.connect (line 44) is called with   *)
(* its defaults, so the connection serves the thread that constructed the  *)
(* Cache and raises ProgrammingError at cursor() in every other thread; a  *)
(* statement on it is one atomic step. A select without ORDER BY yields    *)
(* its rows in an order the query does not fix, so the table is a set of   *)
(* rows and the eviction loop takes its candidates in any order. A file is *)
(* removed from the folder by another program only between the engine's    *)
(* mutating calls (cache.test.py line 139), and os.remove of a cached file *)
(* fails exactly when the file is not in the folder.                       *)
(***************************************************************************)
EXTENDS Integers, Sequences, FiniteSets, TLC

\* ------------------------------------------------------------------ bounds
\* the clock runs from 0 to MaxTime
MaxTime == 1

\* the calling threads
Threads == {1, 2}

\* the thread that constructed the Cache, and with it the connection
ConnectionThread == 1

\* the keys of cache.test.py: '1', '2', '3'
Keys == {"1", "2", "3"}

\* the callers' source files: a path, and what the file at it holds
SourcePaths == {"s1"}

SourceContent(file_path) == <<"data of", file_path>>

\* the UTC offset of the local zone, in clock units
Offsets == {1}

\* the instants of the clock
Times == 0..MaxTime

\* the timedelta arguments of delete_older_than
Deltas == 0..MaxTime

\* what a call gives back: None, a value, or an exception raised
PyNone == [kind |-> "None"]

Value(v) == [kind |-> "value", val |-> v]

Raise(e) == [kind |-> "raise", val |-> e]

\* self._lock when no thread holds it
Free == 0

\* The folder_path given to the constructor (cache.test.py: 'cache-files').
folder_path == <<"c">>

\* file names: "x.t", "x (2).t" (the name a collision makes), "x (3).t",
\* and ".t" (a dot file, which has no extension)
NameXT == <<"x", ".", "t">>

NameX2T == <<"x", " ", "(", "2", ")", ".", "t">>

NameX3T == <<"x", " ", "(", "3", ")", ".", "t">>

NameX22T == <<"x", " ", "(", "2", ")", " ", "(", "2", ")", ".", "t">>

NameDotT == <<".", "t">>

NameDot2 == <<".", "t", " ", "(", "2", ")">>

NameX == <<"x">>

NameX2 == <<"x", " ", "(", "2", ")">>

\* the target_file_name arguments of add_file
RequestedNames == {NameXT}

VARIABLES
    table,      \* the rows of the cache table
    folder,     \* the cache folder: file name -> content
    sources,    \* the source paths at which a file exists
    lock,       \* self._lock: None or the thread that holds it
    now,        \* the clock, as an instant
    pc,         \* per thread: where it is in its call
    call        \* per thread: the call's arguments, locals and return value

vars == <<table, folder, sources, lock, now, pc, call>>

\* ------------------------------------------------------- text and paths
Digits == <<"0", "1", "2", "3", "4", "5", "6", "7", "8", "9">>

\* str(counter) inside the f-string: the decimal digits of n.
RECURSIVE str(_)
str(n) == IF n < 10 THEN <<Digits[n + 1]>>
          ELSE str(n \div 10) \o <<Digits[(n % 10) + 1]>>

\* path.join(self.folder_path, name)
join(dir, name) == dir \o <<"/">> \o name

\* path.splitext: the extension starts at the last dot, unless only dots
\* precede that dot (a dot file), and is empty when there is no such dot.
splitext(p) ==
    LET dots == {i \in 1..Len(p) : p[i] = "."}
        last == CHOOSE i \in dots : \A j \in dots : j <= i
    IN  IF dots = {} \/ (\A j \in 1..(last - 1) : p[j] = ".")
        THEN <<p, <<>>>>
        ELSE <<SubSeq(p, 1, last - 1), SubSeq(p, last, Len(p))>>

\* getNewName = lambda: f'{base} ({counter}){ext}'
getNewName(base, counter, ext) ==
    base \o <<" ", "(">> \o str(counter) \o <<")">> \o ext

\* Cache.file_name_exists on a folder content
file_name_exists_in(fld, file_name) == file_name \in DOMAIN fld

file_name_exists(file_name) == file_name_exists_in(folder, file_name)

\* the while loop of _get_unique_file_name, from a given counter
RECURSIVE probe(_, _, _, _)
probe(fld, base, ext, counter) ==
    IF file_name_exists_in(fld, getNewName(base, counter, ext))
    THEN probe(fld, base, ext, counter + 1)
    ELSE getNewName(base, counter, ext)

\* _get_unique_file_name with the counter started at 1
get_unique_file_name_From1(fld, target_file_name) ==
    IF file_name_exists_in(fld, target_file_name)
    THEN LET be == splitext(target_file_name)
         IN  probe(fld, be[1], be[2], 1)
    ELSE target_file_name

\* Cache._get_unique_file_name
get_unique_file_name(fld, target_file_name) ==
    IF file_name_exists_in(fld, target_file_name)
    THEN LET be == splitext(target_file_name)
         IN  probe(fld, be[1], be[2], 2)
    ELSE target_file_name

\* ------------------------------------------------------------ timestamps
\* format_as_timestamp(dt) of an aware datetime: the local wall-clock time
\* and the UTC offset, which the text carries as "+HH:MM".
format_as_timestamp(instant, off) == [local |-> instant + off, off |-> off]

\* SQLite's datetime(text): the instant in UTC, local time less the offset.
datetime(ts) == ts.local - ts.off

\* The local zone: the UTC offset in force at every instant. ZoneInstants
\* are the instants and wall-clock times the cutoff arithmetic can touch.
ZoneInstants == (0 - MaxTime - 2)..(MaxTime + 2)

\* a zone whose offset never changes
FixedZone(off) == [i \in ZoneInstants |-> off]

\* a zone that puts its clocks forward by one unit at instant 2 (the start
\* of daylight saving time): the wall-clock time 2 is skipped
DstZone == [i \in ZoneInstants |-> IF i <= 1 THEN 0 ELSE 1]

\* datetime._mktime of a naive datetime (fold = 0): the earliest instant
\* whose wall-clock time in the zone is wall; for a wall-clock time the zone
\* skips, the later of the two candidates wall - a and wall - b.
mktime(zone, wall) ==
    LET solutions == {u \in ZoneInstants : u + zone[u] = wall}
        a  == zone[wall]
        u1 == wall - a
        b  == zone[u1]
        u2 == wall - b
    IN  IF solutions # {}
        THEN CHOOSE u \in solutions : \A v \in solutions : u <= v
        ELSE IF u1 > u2 THEN u1 ELSE u2

\* datetime.astimezone() of a naive datetime: the offset is the one the zone
\* has at the instant mktime finds, and the result is the wall-clock time at
\* that offset.
astimezone(zone, wall) ==
    LET off == zone[mktime(zone, wall)] IN [instant |-> wall - off, off |-> off]

\* ------------------------------------------------------------- the table
\* the rows a "where key = ?" finds (the select of add_file, get_file_path
\* and delete_file, and the index of the primary key)
SelectByKey_NoMatch(tbl, key) == {}

SelectByKey(tbl, key) == {r \in tbl : r.key = key}

\* insert into table values (?, ?, ?): the primary key rejects a second
\* row of the key
InsertAllowed(tbl, key) == SelectByKey(tbl, key) = {}

\* an insert that replaces the rows of the same file_name
Insert_ReplaceName(tbl, key, file_name, timestamp) ==
    {r \in tbl : r.file_name # file_name}
        \cup {[key |-> key, file_name |-> file_name, timestamp |-> timestamp]}

Insert(tbl, key, file_name, timestamp) ==
    tbl \cup {[key |-> key, file_name |-> file_name, timestamp |-> timestamp]}

\* the deletes that delete nothing
DeleteKeys_None(tbl, deleted) == tbl

\* delete from table where key = ?, for every key of the list deleted
DeleteKeys(tbl, deleted) ==
    {r \in tbl : \A j \in DOMAIN deleted : deleted[j] # r.key}

\* Cache.get_file_path: fetchone() of the key's select, joined to the folder
get_file_path(tbl, key) ==
    LET hit == SelectByKey(tbl, key)
    IN  IF hit = {} THEN PyNone
        ELSE Value(join(folder_path, (CHOOSE r \in hit : TRUE).file_name))

\* fetchall() of "select key, file_name from ...": the (key, file_name)
\* pairs of the rows selected
fetchall(rows) == {<<r.key, r.file_name>> : r \in rows}

\* the three queries handed to _delete_entries
\* the key's query without its where clause
QueryByKey_All(tbl, key) == fetchall(tbl)

QueryByKey(tbl, key) == fetchall(SelectByKey(tbl, key))

QueryAll(tbl) == fetchall(tbl)

QueryOlderThan(tbl, cutoff) ==
    fetchall({r \in tbl : datetime(r.timestamp) < datetime(cutoff)})

\* --------------------------------------------------------- construction
\* the database file and the folder path as the constructor may find them:
\* without the table, or with the table and its rows; without the folder,
\* or with the folder and its files
NoTable == [exists |-> FALSE, rows |-> {}]

NoFolder == [exists |-> FALSE, files |-> <<>>]

\* _init_db with the create statement run whatever the catalog says, the
\* table being replaced
init_db_Recreate(db) == [exists |-> TRUE, rows |-> {}]

\* Cache._init_db: the catalog query for the table's name, and create table
\* when there is none
init_db(db) == IF ~db.exists THEN [exists |-> TRUE, rows |-> {}] ELSE db

\* Cache._init_folder: mkdir(parents=True, exist_ok=True)
init_folder(dir) == IF ~dir.exists THEN [exists |-> TRUE, files |-> <<>>] ELSE dir

\* ------------------------------------------------------------- the calls
\* the arguments and locals of a thread that runs no call
NoCall ==
    [op |-> "none", key |-> "", src |-> "", name |-> <<>>, copy |-> FALSE,
     target |-> <<>>, cutoff |-> format_as_timestamp(0, 0),
     entries |-> {}, todo |-> {}, errors |-> <<>>, deleted |-> <<>>,
     pre |-> [table |-> {}, folder |-> <<>>, sources |-> {}],
     ret |-> PyNone]

\* the table, the folder and the source files as a call finds them when it
\* has the lock
Snapshot == [table |-> table, folder |-> folder, sources |-> sources]

\* Cache.__init__ on a database file and a folder path that do not exist
Init ==
    /\ table = init_db(NoTable).rows
    /\ folder = init_folder(NoFolder).files
    /\ sources = SourcePaths
    /\ lock = Free
    /\ now = 0
    /\ pc = [t \in Threads |-> "idle"]
    /\ call = [t \in Threads |-> NoCall]

\* a finished call hands its result to its caller before anything else
\* happens
Handed == \A u \in Threads : pc[u] # "done"

\* a lock that is taken without waiting for it
Acquire_NoWait(t) == lock' = t

\* with self._lock: the thread waits until the lock is free
Acquire(t) == lock = Free /\ lock' = t

\* leaving the with block, by return or by exception
Release(t) == lock = t /\ lock' = Free

\* self.connection.cursor() in thread t: sqlite3 serves the thread that
\* made the connection (check_same_thread is left at its default)
check_thread(t) == t = ConnectionThread

\* Cache.__init__ called again, in any thread, for the database file, the
\* table name and the folder of this Cache: _init_db and _init_folder on the
\* table and the folder that exist (the calls of the new instance are not
\* followed)
construct(t) ==
    /\ Handed
    /\ pc[t] = "idle"
    /\ table' = init_db([exists |-> TRUE, rows |-> table]).rows
    /\ folder' = init_folder([exists |-> TRUE, files |-> folder]).files
    /\ pc' = [pc EXCEPT ![t] = "done"]
    /\ call' = [call EXCEPT ![t] =
                  [NoCall EXCEPT !.op = "__init__", !.pre = Snapshot]]
    /\ UNCHANGED <<sources, lock, now>>

\* add_file without the raise of line 64
add_file_NoRaise(t, key, file_path, target_file_name, copy_file) ==
    /\ Handed
    /\ pc[t] = "idle"
    /\ Acquire(t)
    /\ pc' = [pc EXCEPT ![t] = "add_transfer"]
    /\ call' = [call EXCEPT ![t] =
                  [NoCall EXCEPT !.op = "add_file", !.key = key, !.src = file_path,
                                 !.name = target_file_name, !.copy = copy_file,
                                 !.pre = Snapshot,
                                 !.target =
                                     get_unique_file_name(folder, target_file_name)]]
    /\ UNCHANGED <<table, folder, sources, now>>

\* add_file lines 59-68: the lock, the cursor, the key's select, the raise
\* for an existing key, and the unique name; in a thread the connection
\* does not serve, the call stops at the cursor
add_file(t, key, file_path, target_file_name, copy_file) ==
    /\ Handed
    /\ pc[t] = "idle"
    /\ lock = Free
    /\ LET c == [NoCall EXCEPT !.op = "add_file", !.key = key, !.src = file_path,
                               !.name = target_file_name, !.copy = copy_file,
                               !.pre = Snapshot]
       IN  IF ~check_thread(t)
           THEN /\ Acquire(t)
                /\ pc' = [pc EXCEPT ![t] = "cursor"]
                /\ call' = [call EXCEPT ![t] = c]
           ELSE IF SelectByKey(table, key) # {}
           THEN /\ pc' = [pc EXCEPT ![t] = "done"]
                /\ call' = [call EXCEPT ![t] =
                              [c EXCEPT !.ret = Raise("Key already exists")]]
                /\ UNCHANGED lock
           ELSE /\ Acquire(t)
                /\ pc' = [pc EXCEPT ![t] = "add_transfer"]
                /\ call' = [call EXCEPT ![t] =
                              [c EXCEPT !.target =
                                  get_unique_file_name(folder, target_file_name)]]
    /\ UNCHANGED <<table, folder, sources, now>>

\* the ProgrammingError of cursor() with the lock left as it is
cursor_KeepsLock(t) ==
    /\ Handed
    /\ pc[t] = "cursor"
    /\ pc' = [pc EXCEPT ![t] = "done"]
    /\ call' = [call EXCEPT ![t].ret = Raise("ProgrammingError")]
    /\ UNCHANGED <<table, folder, sources, lock, now>>

\* cursor() (lines 60 and 140) in a thread the connection does not serve:
\* ProgrammingError leaves the with block
cursor(t) ==
    /\ Handed
    /\ pc[t] = "cursor"
    /\ Release(t)
    /\ pc' = [pc EXCEPT ![t] = "done"]
    /\ call' = [call EXCEPT ![t].ret = Raise("ProgrammingError")]
    /\ UNCHANGED <<table, folder, sources, now>>

\* what the filesystem does with a transfer whose source file exists: it
\* completes, or copyfile / move raises OSError before the target is made
TransferOutcomes == {"ok", "error"}

\* the transfer with a move that leaves the source file behind
add_transfer_KeepsSource(t, outcome) ==
    /\ Handed
    /\ pc[t] = "add_transfer"
    /\ call[t].src \in sources
    /\ folder' = (call[t].target :> SourceContent(call[t].src)) @@ folder
    /\ pc' = [pc EXCEPT ![t] = "add_insert"]
    /\ UNCHANGED <<table, sources, lock, now, call>>

\* the transfer with the row written before the file is transferred
add_transfer_RowFirst(t, outcome) ==
    /\ Handed
    /\ pc[t] = "add_transfer"
    /\ IF call[t].src \in sources /\ outcome = "ok"
       THEN /\ folder' = (call[t].target :> SourceContent(call[t].src)) @@ folder
            /\ sources' = IF call[t].copy THEN sources ELSE sources \ {call[t].src}
            /\ pc' = [pc EXCEPT ![t] = "add_insert"]
            /\ UNCHANGED <<lock, call, table>>
       ELSE /\ Release(t)
            /\ pc' = [pc EXCEPT ![t] = "done"]
            /\ table' = Insert(table, call[t].key, call[t].target,
                               format_as_timestamp(now, 0))
            /\ call' = [call EXCEPT ![t].ret = Raise("FileNotFoundError")]
            /\ UNCHANGED <<folder, sources>>
    /\ UNCHANGED now

\* shutil.copyfile / shutil.move (lines 69-72): writes the target, and a
\* move takes the source away; a missing source raises FileNotFoundError
\* and a failing filesystem OSError, and either leaves the with block
add_transfer(t, outcome) ==
    /\ Handed
    /\ pc[t] = "add_transfer"
    /\ IF call[t].src \notin sources
       THEN /\ Release(t)
            /\ pc' = [pc EXCEPT ![t] = "done"]
            /\ call' = [call EXCEPT ![t].ret = Raise("FileNotFoundError")]
            /\ UNCHANGED <<folder, sources>>
       ELSE IF outcome = "ok"
       THEN /\ folder' = (call[t].target :> SourceContent(call[t].src)) @@ folder
            /\ sources' = IF call[t].copy THEN sources ELSE sources \ {call[t].src}
            /\ pc' = [pc EXCEPT ![t] = "add_insert"]
            /\ UNCHANGED <<lock, call>>
       ELSE /\ Release(t)
            /\ pc' = [pc EXCEPT ![t] = "done"]
            /\ call' = [call EXCEPT ![t].ret = Raise("OSError")]
            /\ UNCHANGED <<folder, sources>>
    /\ UNCHANGED <<table, now>>

\* the insert with the name asked for in place of the unique name
add_insert_AsAsked(t, off) ==
    /\ Handed
    /\ pc[t] = "add_insert"
    /\ Release(t)
    /\ pc' = [pc EXCEPT ![t] = "done"]
    /\ table' = Insert(table, call[t].key, call[t].name, format_as_timestamp(now, off))
    /\ call' = [call EXCEPT ![t].ret = get_file_path(table', call[t].key)]
    /\ UNCHANGED <<folder, sources, now>>

\* lines 74-83: the timestamp, the insert, the commit and
\* return self.get_file_path(key), which leaves the with block
add_insert(t, off) ==
    /\ Handed
    /\ pc[t] = "add_insert"
    /\ Release(t)
    /\ pc' = [pc EXCEPT ![t] = "done"]
    /\ IF InsertAllowed(table, call[t].key)
       THEN /\ table' = Insert(table, call[t].key, call[t].target,
                               format_as_timestamp(now, off))
            /\ call' = [call EXCEPT ![t].ret = get_file_path(table', call[t].key)]
       ELSE /\ call' = [call EXCEPT ![t].ret = Raise("IntegrityError")]
            /\ UNCHANGED table
    /\ UNCHANGED <<folder, sources, now>>

\* get_file_path called by a thread: the cursor and one select, no lock
get_file_path_call(t, key) ==
    /\ Handed
    /\ pc[t] = "idle"
    /\ pc' = [pc EXCEPT ![t] = "done"]
    /\ call' = [call EXCEPT ![t] =
                  [NoCall EXCEPT !.op = "get_file_path", !.key = key,
                                 !.ret = IF check_thread(t)
                                         THEN get_file_path(table, key)
                                         ELSE Raise("ProgrammingError")]]
    /\ UNCHANGED <<table, folder, sources, lock, now>>

\* file_name_exists called by a thread: one path.exists, no lock
file_name_exists_call(t, file_name) ==
    /\ Handed
    /\ pc[t] = "idle"
    /\ pc' = [pc EXCEPT ![t] = "done"]
    /\ call' = [call EXCEPT ![t] =
                  [NoCall EXCEPT !.op = "file_name_exists", !.name = file_name,
                                 !.ret = Value(file_name_exists(file_name))]]
    /\ UNCHANGED <<table, folder, sources, lock, now>>

\* _delete_entries lines 139-144: the lock, the cursor, the candidates of
\* the query, and two empty lists; in a thread the connection does not
\* serve, the call stops at the cursor
del_select(t, c, entries) ==
    /\ Acquire(t)
    /\ IF check_thread(t)
       THEN /\ pc' = [pc EXCEPT ![t] = "del_remove"]
            /\ call' = [call EXCEPT ![t] =
                          [c EXCEPT !.entries = entries, !.todo = entries,
                                    !.pre = Snapshot]]
       ELSE /\ pc' = [pc EXCEPT ![t] = "cursor"]
            /\ call' = [call EXCEPT ![t] = [c EXCEPT !.pre = Snapshot]]
    /\ UNCHANGED <<table, folder, sources, now>>

\* delete_file(key): _delete_entries with the key's query
delete_file(t, key) ==
    /\ Handed
    /\ pc[t] = "idle"
    /\ del_select(t, [NoCall EXCEPT !.op = "delete_file", !.key = key],
                  QueryByKey(table, key))

\* clear(): _delete_entries with the query of all rows
clear(t) ==
    /\ Handed
    /\ pc[t] = "idle"
    /\ del_select(t, [NoCall EXCEPT !.op = "clear"], QueryAll(table))

\* delete_older_than(delta): the cutoff of lines 129 and 135 is computed
\* before the lock is asked for, at a time `at` that is not after the time
\* at which the thread gets the lock of _delete_entries. datetime.now() is
\* the naive wall-clock time of `at` in the local zone, delta is subtracted
\* from the wall clock, and astimezone() makes the result an aware datetime.
delete_older_than(t, delta, zone, at) ==
    /\ Handed
    /\ pc[t] = "idle"
    /\ at <= now
    /\ LET wall == (at + zone[at]) - delta
           dt == astimezone(zone, wall)
           c == [NoCall EXCEPT !.op = "delete_older_than",
                               !.cutoff = format_as_timestamp(dt.instant, dt.off)]
       IN  del_select(t, c, QueryOlderThan(table, c.cutoff))

\* one candidate, with a file that is missing counted as removed
del_remove_IgnoreMissing(t, row) ==
    /\ Handed
    /\ pc[t] = "del_remove"
    /\ row \in call[t].todo
    /\ folder' = [f \in DOMAIN folder \ {row[2]} |-> folder[f]]
    /\ call' = [call EXCEPT ![t].todo = @ \ {row},
                            ![t].deleted = Append(@, row[1])]
    /\ UNCHANGED <<table, sources, lock, now, pc>>

\* lines 145-150, one candidate: os.remove, then deleted or errors
del_remove(t, row) ==
    /\ Handed
    /\ pc[t] = "del_remove"
    /\ row \in call[t].todo
    /\ IF row[2] \in DOMAIN folder
       THEN /\ folder' = [f \in DOMAIN folder \ {row[2]} |-> folder[f]]
            /\ call' = [call EXCEPT ![t].todo = @ \ {row},
                                    ![t].deleted = Append(@, row[1])]
       ELSE /\ call' = [call EXCEPT ![t].todo = @ \ {row},
                                    ![t].errors =
                                        Append(@, <<row[1], "FileNotFoundError">>)]
            /\ UNCHANGED folder
    /\ UNCHANGED <<table, sources, lock, now, pc>>

\* the deletes for every candidate, the failed ones included
del_rows_All(t) ==
    /\ Handed
    /\ pc[t] = "del_remove"
    /\ call[t].todo = {}
    /\ Release(t)
    /\ table' = {r \in table : \A e \in call[t].entries : e[1] # r.key}
    /\ pc' = [pc EXCEPT ![t] = "done"]
    /\ call' = [call EXCEPT ![t].ret = Value(call[t].errors)]
    /\ UNCHANGED <<folder, sources, now>>

\* the return without the deletes
del_rows_None(t) ==
    /\ Handed
    /\ pc[t] = "del_remove"
    /\ call[t].todo = {}
    /\ Release(t)
    /\ pc' = [pc EXCEPT ![t] = "done"]
    /\ call' = [call EXCEPT ![t].ret = Value(call[t].errors)]
    /\ UNCHANGED <<table, folder, sources, now>>

\* lines 152-158: the rows of the deleted keys go, the commit, and
\* return errors, which leaves the with block
del_rows(t) ==
    /\ Handed
    /\ pc[t] = "del_remove"
    /\ call[t].todo = {}
    /\ Release(t)
    /\ table' = DeleteKeys(table, call[t].deleted)
    /\ pc' = [pc EXCEPT ![t] = "done"]
    /\ call' = [call EXCEPT ![t].ret = Value(call[t].errors)]
    /\ UNCHANGED <<folder, sources, now>>

\* the caller has its result and is free to call again
Return(t) ==
    /\ pc[t] = "done"
    /\ pc' = [pc EXCEPT ![t] = "idle"]
    /\ call' = [call EXCEPT ![t] = NoCall]
    /\ UNCHANGED <<table, folder, sources, lock, now>>

\* a file of the cache folder is removed by another program
\* (cache.test.py line 139), while no mutating call runs
OutOfBandRemove(f) ==
    /\ Handed
    /\ lock = Free
    /\ f \in DOMAIN folder
    /\ folder' = [g \in DOMAIN folder \ {f} |-> folder[g]]
    /\ UNCHANGED <<table, sources, lock, now, pc, call>>

\* time passes, up to the last instant of the clock
Tick(last) ==
    /\ Handed
    /\ now < last
    /\ now' = now + 1
    /\ UNCHANGED <<table, folder, sources, lock, pc, call>>

Next ==
    \/ \E t \in Threads, key \in Keys, s \in SourcePaths, n \in RequestedNames,
          c \in BOOLEAN : add_file(t, key, s, n, c)
    \/ \E t \in Threads : cursor(t)
    \/ \E t \in Threads : add_transfer(t, "ok")
    \/ \E t \in Threads, off \in Offsets : add_insert(t, off)
    \/ \E t \in Threads, key \in Keys : get_file_path_call(t, key)
    \/ \E t \in Threads, n \in RequestedNames : file_name_exists_call(t, n)
    \/ \E t \in Threads, key \in Keys : delete_file(t, key)
    \/ \E t \in Threads : clear(t)
    \/ \E t \in Threads, d \in Deltas, off \in Offsets, at \in Times :
          delete_older_than(t, d, FixedZone(off), at)
    \/ \E t \in Threads : \E row \in call[t].todo : del_remove(t, row)
    \/ \E t \in Threads : del_rows(t)
    \/ \E t \in Threads : construct(t)
    \/ \E t \in Threads : Return(t)
    \/ \E f \in DOMAIN folder : OutOfBandRemove(f)
    \/ Tick(MaxTime)

Spec == Init /\ [][Next]_vars

\* --------------------------------------- the engine alone with its folder
\* The engine when no other program removes files from the cache folder.
NextAlone ==
    \/ \E t \in Threads, key \in Keys, s \in SourcePaths, n \in RequestedNames,
          c \in BOOLEAN : add_file(t, key, s, n, c)
    \/ \E t \in Threads : cursor(t)
    \/ \E t \in Threads : add_transfer(t, "ok")
    \/ \E t \in Threads, off \in Offsets : add_insert(t, off)
    \/ \E t \in Threads, key \in Keys : get_file_path_call(t, key)
    \/ \E t \in Threads, n \in RequestedNames : file_name_exists_call(t, n)
    \/ \E t \in Threads, key \in Keys : delete_file(t, key)
    \/ \E t \in Threads : clear(t)
    \/ \E t \in Threads, d \in Deltas, off \in Offsets, at \in Times :
          delete_older_than(t, d, FixedZone(off), at)
    \/ \E t \in Threads : \E row \in call[t].todo : del_remove(t, row)
    \/ \E t \in Threads : del_rows(t)
    \/ \E t \in Threads : construct(t)
    \/ \E t \in Threads : Return(t)
    \/ Tick(MaxTime)

SpecAlone == Init /\ [][NextAlone]_vars

\* ------------------------------------------------------ fair scheduling
\* The threads are scheduled fairly: a thread inside the with block takes
\* its next step, and a caller that has its result goes on. (A step inside
\* the block waits for no other thread; the model lets a finished call hand
\* over its result first, so the step is enabled again and again rather
\* than all the time.)
BodyStep(t) ==
    \/ cursor(t)
    \/ add_transfer(t, "ok")
    \/ \E off \in Offsets : add_insert(t, off)
    \/ \E row \in call[t].todo : del_remove(t, row)
    \/ del_rows(t)

SpecFair ==
    /\ Init
    /\ [][NextAlone]_vars
    /\ \A t \in Threads : SF_vars(BodyStep(t)) /\ WF_vars(Return(t))

\* ------------------------------------------------ add_file over any folder
\* The name add_file stores is a function of the folder and the name asked
\* for. This specification starts add_file in a folder that holds any
\* files another program has put there (cache.test.py line 52 writes one),
\* and asks for names of every shape.
LooseNames == {NameXT, NameX2T, NameX3T, NameDotT, NameX}

LooseContent == <<"data of another program">>

AskedNames == {NameXT, NameX2T, NameDotT, NameX}

InitNames ==
    /\ table = {}
    /\ \E present \in SUBSET LooseNames : folder = [f \in present |-> LooseContent]
    /\ sources = SourcePaths
    /\ lock = Free
    /\ now = 0
    /\ pc = [t \in Threads |-> "idle"]
    /\ call = [t \in Threads |-> NoCall]

NextNames ==
    \/ \E t \in Threads, key \in Keys, s \in SourcePaths, n \in AskedNames,
          c \in BOOLEAN : add_file(t, key, s, n, c)
    \/ \E t \in Threads : cursor(t)
    \/ \E t \in Threads : add_transfer(t, "ok")
    \/ \E t \in Threads, off \in Offsets : add_insert(t, off)
    \/ \E t \in Threads : Return(t)

SpecNames == InitNames /\ [][NextNames]_vars

\* ------------------------------------------------ transfers that fail
\* add_file with source paths at which a file may or may not exist, on a
\* filesystem whose copy and move may fail.
TransferPaths == {"s1", "s2"}

InitTransfer ==
    /\ table = {}
    /\ folder = <<>>
    /\ sources \in SUBSET TransferPaths
    /\ lock = Free
    /\ now = 0
    /\ pc = [t \in Threads |-> "idle"]
    /\ call = [t \in Threads |-> NoCall]

NextTransfer ==
    \/ \E t \in Threads, key \in Keys, s \in TransferPaths, n \in RequestedNames,
          c \in BOOLEAN : add_file(t, key, s, n, c)
    \/ \E t \in Threads : cursor(t)
    \/ \E t \in Threads, outcome \in TransferOutcomes : add_transfer(t, outcome)
    \/ \E t \in Threads, off \in Offsets : add_insert(t, off)
    \/ \E t \in Threads, key \in Keys : get_file_path_call(t, key)
    \/ \E t \in Threads : Return(t)

SpecTransfer == InitTransfer /\ [][NextTransfer]_vars

\* ------------------------------------------- expiry in a zone with two offsets
\* The engine in a zone with daylight saving time: rows are recorded with
\* the offset in force when they are added, and the wall-clock time of the
\* cutoff may lie on the other side of the change than datetime.now().
\* the clock of this specification runs one unit longer, and a timedelta
\* may be longer than the change of the offset
ExpiryTimes == 0..(MaxTime + 1)

NextExpiry ==
    \/ \E t \in Threads, key \in Keys, s \in SourcePaths, n \in RequestedNames :
          add_file(t, key, s, n, TRUE)
    \/ \E t \in Threads : cursor(t)
    \/ \E t \in Threads : add_transfer(t, "ok")
    \/ \E t \in Threads : add_insert(t, DstZone[now])
    \/ \E t \in Threads, d \in ExpiryTimes, at \in ExpiryTimes :
          delete_older_than(t, d, DstZone, at)
    \/ \E t \in Threads : \E row \in call[t].todo : del_remove(t, row)
    \/ \E t \in Threads : del_rows(t)
    \/ \E t \in Threads : Return(t)
    \/ Tick(MaxTime + 1)

SpecExpiry == Init /\ [][NextExpiry]_vars

\* ---------------------------------------------------------------- claims
\* the calls that have just finished, with their arguments and results
Finished(op) == {t \in Threads : pc[t] = "done" /\ call[t].op = op}

Raised(c, e) == c.ret.kind = "raise" /\ c.ret.val = e

\* the finished calls that the connection served, which are the calls made
\* in the thread that constructed the Cache
Served(op) == {t \in Finished(op) : ~Raised(call[t], "ProgrammingError")}

Returned(c) == c.ret.kind = "value"

HasRow(tbl, key) == \E r \in tbl : r.key = key

\* C1: in every reachable state no two rows of the table have the same key.
C1_KeyUnique == \A r1, r2 \in table : r1.key = r2.key => r1 = r2

\* C1 witness: an add_file has just been refused for a key that has a row,
\* beside the row of another key.
C1_Witness ==
    \E t \in Finished("add_file") :
        /\ Raised(call[t], "Key already exists")
        /\ Cardinality(table) >= 2

\* C2: in every reachable state no two rows of the table have the same
\* file_name, also after a failed eviction of an entry whose file was removed
\* by another program and a later add_file of the same name.
C2_FileNameUnique == \A r1, r2 \in table : r1.file_name = r2.file_name => r1 = r2

\* C3: an add_file for a key that has a row, called in the thread of the
\* connection, raises the duplicate-key error and leaves the table, the
\* folder and the source files as they were, the source of a move included.
C3_DuplicateKeyNoChange ==
    \A t \in Served("add_file") :
        HasRow(call[t].pre.table, call[t].key) =>
            /\ Raised(call[t], "Key already exists")
            /\ table = call[t].pre.table
            /\ folder = call[t].pre.folder
            /\ sources = call[t].pre.sources

\* C3 witness: a move of an existing source file has just been refused for
\* a key that has a row.
C3_Witness ==
    \E t \in Served("add_file") :
        /\ HasRow(call[t].pre.table, call[t].key)
        /\ ~call[t].copy
        /\ call[t].src \in sources

\* C4: the name add_file stores is the name asked for when the folder has
\* no file of that name, and otherwise "base (n)ext" for the smallest n >= 2
\* that names no file of the folder; it never names a file of the folder, so
\* the transfer leaves every file of the folder as it was. Three adds of
\* "x.t" into an empty folder store "x.t", "x (2).t", "x (3).t" in turn.
C4_UniqueName ==
    \A t \in Threads :
        (call[t].op = "add_file" /\ pc[t] \in {"add_transfer", "add_insert"}) =>
            LET c == call[t]
                had == DOMAIN c.pre.folder
                be == splitext(c.name)
                candidate(n) == getNewName(be[1], n, be[2])
            IN  /\ c.name \notin had => c.target = c.name
                /\ c.name \in had =>
                       \E n \in 2..(Cardinality(had) + 2) :
                           /\ c.target = candidate(n)
                           /\ \A m \in 2..(n - 1) : candidate(m) \in had
                /\ c.target \notin had
                /\ (c.name = NameXT /\ had = {}) => c.target = NameXT
                /\ (c.name = NameXT /\ had = {NameXT}) => c.target = NameX2T
                /\ (c.name = NameXT /\ had = {NameXT, NameX2T}) => c.target = NameX3T
                /\ (c.name = NameXT /\ had = {NameXT, NameX3T}) => c.target = NameX2T
                /\ (c.name = NameX2T /\ NameX2T \in had /\ NameX22T \notin had)
                       => c.target = NameX22T
                /\ (c.name = NameDotT /\ NameDotT \in had /\ NameDot2 \notin had)
                       => c.target = NameDot2
                /\ (c.name = NameX /\ NameX \in had /\ NameX2 \notin had)
                       => c.target = NameX2
                /\ pc[t] = "add_insert" =>
                       /\ \A f \in had : f \in DOMAIN folder /\ folder[f] = c.pre.folder[f]
                       /\ DOMAIN folder = had \cup {c.target}

\* C4 witness: the third add of "x.t", after two adds that stored "x.t" and
\* "x (2).t", has stored its file as "x (3).t".
C4_Witness ==
    \E t \in Threads :
        /\ call[t].op = "add_file" /\ pc[t] = "add_insert"
        /\ call[t].name = NameXT
        /\ {r.file_name : r \in table} = {NameXT, NameX2T}
        /\ Cardinality(table) = 2
        /\ DOMAIN call[t].pre.folder = {NameXT, NameX2T}
        /\ call[t].target = NameX3T

\* C5: an add_file that returns gives back the folder joined with the stored
\* name, a file with the source's content is at that path, get_file_path of
\* the key gives the same path, and it goes on giving that path for as long
\* as the key keeps its row.
C5_AtReturn ==
    \A t \in Finished("add_file") :
        Returned(call[t]) =>
            /\ call[t].ret.val = join(folder_path, call[t].target)
            /\ call[t].target \in DOMAIN folder
            /\ folder[call[t].target] = SourceContent(call[t].src)
            /\ get_file_path(table, call[t].key) = call[t].ret

C5_PathKept ==
    \A k \in Keys :
        (HasRow(table, k) /\ HasRow(table', k)) =>
            get_file_path(table', k) = get_file_path(table, k)

C5_RoundTrip == []C5_AtReturn /\ [][C5_PathKept]_vars

\* C5 witness: an add_file has returned the path of a stored name that
\* differs from the name asked for, while another key has a row.
C5_Witness ==
    \E t \in Finished("add_file") :
        /\ Returned(call[t])
        /\ call[t].target # call[t].name
        /\ call[t].ret.val = join(folder_path, NameX2T)
        /\ Cardinality(table) >= 2

\* C6: after an add_file that returns, a move has left no file at the source
\* path and a copy has left the source file, the stored file exists in both
\* modes, and the table has gained exactly one row, of the given key and the
\* stored name.
C6_MoveOrCopy ==
    \A t \in Finished("add_file") :
        Returned(call[t]) =>
            LET c == call[t]
            IN  /\ c.target \in DOMAIN folder
                /\ c.copy => c.src \in sources
                /\ ~c.copy => c.src \notin sources
                /\ c.pre.table \subseteq table
                /\ \E r \in table :
                       /\ r.key = c.key
                       /\ r.file_name = c.target
                       /\ table \ c.pre.table = {r}

\* C6 witness: a move has returned, beside the row of an earlier copy.
C6_Witness ==
    \E t \in Finished("add_file") :
        /\ Returned(call[t])
        /\ ~call[t].copy
        /\ call[t].pre.table # {}

\* the rows a finished eviction selected, from the table it found
Selected(c) ==
    CASE c.op = "delete_file" -> {r \in c.pre.table : r.key = c.key}
      [] c.op = "clear" -> c.pre.table
      [] c.op = "delete_older_than" ->
            {r \in c.pre.table :
                r.timestamp.local - r.timestamp.off < c.cutoff.local - c.cutoff.off}

Evictions == {"delete_file", "clear", "delete_older_than"}

\* C7: when delete_file, clear or delete_older_than, called in the thread
\* of the connection, returns, the file of every selected row is out of the folder (each removal was attempted), the
\* rows gone are selected rows whose file was removed by the call, one row
\* for each file that was in the folder, the other selected rows are still
\* in the table, and the list returned names exactly these rows, each once.
C7_Eviction ==
    \A t \in Threads :
        (pc[t] = "done" /\ call[t].op \in Evictions
                        /\ ~Raised(call[t], "ProgrammingError")) =>
            LET c == call[t]
                gone == c.pre.table \ table
                errs == c.ret.val
                names == {r.file_name : r \in Selected(c)}
            IN  /\ Returned(c)
                /\ table \subseteq c.pre.table
                /\ gone \subseteq Selected(c)
                /\ \A i, j \in DOMAIN errs : errs[i][1] = errs[j][1] => i = j
                /\ {errs[i][1] : i \in DOMAIN errs} = {r.key : r \in Selected(c) \ gone}
                /\ DOMAIN folder = DOMAIN c.pre.folder \ names
                /\ \A f \in DOMAIN folder : folder[f] = c.pre.folder[f]
                /\ \A n \in names :
                       Cardinality({r \in gone : r.file_name = n}) =
                           IF n \in DOMAIN c.pre.folder THEN 1 ELSE 0

\* C7 witness: clear() has returned one failure, for the one of three cached
\* files that another program had removed, and the table keeps that row only.
C7_Witness ==
    \E t \in Finished("clear") :
        LET c == call[t]
        IN  /\ Cardinality(c.pre.table) = 3
            /\ {r.file_name : r \in c.pre.table} = {NameXT, NameX2T, NameX3T}
            /\ DOMAIN c.pre.folder = {NameX2T, NameX3T}
            /\ Len(c.ret.val) = 1
            /\ \E r \in c.pre.table :
                   r.file_name = NameXT /\ c.ret.val[1][1] = r.key /\ table = {r}

\* C8: delete_file of a key that has a row whose file is in the folder,
\* called in the thread of the connection, returns an empty list, the file is out of the folder, the key has no row
\* and get_file_path gives None; and add_file refuses a key as a duplicate
\* only when the key has a row, so the deleted key can be added again.
C8_DeleteRemovesBoth ==
    /\ \A t \in Served("delete_file") :
           \A r \in call[t].pre.table :
               (r.key = call[t].key /\ r.file_name \in DOMAIN call[t].pre.folder) =>
                   /\ call[t].ret = Value(<<>>)
                   /\ r.file_name \notin DOMAIN folder
                   /\ ~HasRow(table, call[t].key)
                   /\ get_file_path(table, call[t].key) = PyNone
    /\ \A t \in Finished("add_file") :
           Raised(call[t], "Key already exists") => HasRow(call[t].pre.table, call[t].key)

\* C8 witness: delete_file has returned for a key that had a row and a file,
\* beside another entry.
C8_Witness ==
    \E t \in Served("delete_file") :
        /\ \E r \in call[t].pre.table :
               r.key = call[t].key /\ r.file_name \in DOMAIN call[t].pre.folder
        /\ table # {}

\* C9: delete_file(key), called in the thread of the connection, leaves the
\* row of every other key in the table, and the file of that row in the
\* folder if it was there.
C9_OthersIntact ==
    \A t \in Served("delete_file") :
        \A r \in call[t].pre.table :
            r.key # call[t].key =>
                /\ r \in table
                /\ r.file_name \in DOMAIN call[t].pre.folder => r.file_name \in DOMAIN folder

\* C10: delete_file of a key that has no row, called in the thread of the
\* connection, returns an empty list and leaves the table and the folder as
\* they were.
C10_MissingKeyNoOp ==
    \A t \in Served("delete_file") :
        ~HasRow(call[t].pre.table, call[t].key) =>
            /\ call[t].ret = Value(<<>>)
            /\ table = call[t].pre.table
            /\ folder = call[t].pre.folder

\* C10 witness: delete_file has returned for a key without a row, while the
\* table has rows and the folder has files.
C10_Witness ==
    \E t \in Served("delete_file") :
        /\ ~HasRow(call[t].pre.table, call[t].key)
        /\ table # {}
        /\ DOMAIN folder # {}

\* C11: delete_older_than(delta), called at the instant `at`, selects exactly
\* the rows whose timestamp, as an instant (local time less its UTC offset),
\* is strictly earlier than at - delta, also when the rows were recorded
\* with different UTC offsets; a row whose instant is at - delta or later is
\* not selected.
C11_SelectsOlder ==
    \A t \in Threads, d \in ExpiryTimes, at \in ExpiryTimes :
        delete_older_than(t, d, DstZone, at) =>
            call'[t].entries =
                fetchall({r \in table : r.timestamp.local - r.timestamp.off < at - d})

C11_ExpiryBoundary == [][C11_SelectsOlder]_vars

\* the threads inside the with block of a mutating operation
InBody(t) == pc[t] \in {"cursor", "add_transfer", "add_insert", "del_remove"}

\* C12: at most one thread is inside the body of add_file, delete_file,
\* clear or delete_older_than at any time, that thread holds the lock, and
\* while it is inside every step that changes the table, the folder or the
\* source files is a step of its own call.
C12_OneInBody ==
    \A t \in Threads :
        InBody(t) => (lock = t /\ \A u \in Threads \ {t} : ~InBody(u))

C12_OwnSteps ==
    \A t \in Threads :
        (InBody(t) /\ <<table, folder, sources>>' # <<table, folder, sources>>) =>
            (pc'[t] # pc[t] \/ call'[t] # call[t])

C12_MutualExclusion == []C12_OneInBody /\ [][C12_OwnSteps]_vars

\* C12 witness: a thread other than the one that added the rows of the
\* table is inside the body of a mutating call and holds the lock, while
\* the thread that added the rows is free to call.
C12_Witness ==
    \E t \in Threads \ {ConnectionThread} :
        /\ InBody(t)
        /\ lock = t
        /\ call[t].op \in Evictions
        /\ table # {}
        /\ pc[ConnectionThread] = "idle"

\* C13: of two threads that call add_file with the same key, the one that
\* gets the lock first succeeds and the other fails with the duplicate-key
\* error and puts no file into the folder; of two threads that call add_file
\* with different keys and the same name, both succeed, the second with a
\* stored name that no file of the folder has. So every add_file of a
\* source file that exists, in whichever thread, ends in one of these two
\* ways, by whether the key has a row when the call has the lock.
C13_ConcurrentAdds ==
    \A t \in Finished("add_file") :
        LET c == call[t]
        IN  c.src \in c.pre.sources =>
                IF HasRow(c.pre.table, c.key)
                THEN /\ Raised(c, "Key already exists")
                     /\ folder = c.pre.folder
                ELSE /\ Returned(c)
                     /\ c.target \notin DOMAIN c.pre.folder
                     /\ c.target \in DOMAIN folder
                     /\ \A f \in DOMAIN c.pre.folder :
                            f \in DOMAIN folder /\ folder[f] = c.pre.folder[f]

\* the lookups that have just been answered
Lookups == {"get_file_path", "file_name_exists"}

\* C14: a lookup that is answered while a mutating call of another thread is
\* inside its body reads the table and the folder as they were before that
\* call started (the state after it is there only once the call is out of
\* its body): not a folder with the file of an add whose row is not yet
\* inserted, and not a table with a row whose file the running eviction has
\* removed.
C14_NoIntermediateState ==
    \A t \in Threads :
        (pc[t] = "done" /\ call[t].op \in Lookups
                       /\ ~Raised(call[t], "ProgrammingError")) =>
            \A u \in Threads \ {t} :
                InBody(u) => (table = call[u].pre.table /\ folder = call[u].pre.folder)

TransferErrors == {"FileNotFoundError", "OSError"}

\* C15: an add_file whose transfer fails, the source file missing or the
\* copy or move raising, raises that error, and the table is as it was:
\* the key has no row and get_file_path gives None for it; add_file raises
\* the duplicate-key error only for a key that has a row, so a later
\* add_file of the key is not refused as a duplicate. A served add_file of a
\* key without a row and of a source path without a file does raise.
C15_FailedTransfer ==
    \A t \in Finished("add_file") :
        LET c == call[t]
        IN  /\ (c.ret.kind = "raise" /\ c.ret.val \in TransferErrors) =>
                   /\ table = c.pre.table
                   /\ ~HasRow(table, c.key)
                   /\ get_file_path(table, c.key) = PyNone
            /\ Raised(c, "Key already exists") => HasRow(c.pre.table, c.key)
            /\ (t \in Served("add_file") /\ ~HasRow(c.pre.table, c.key)
                    /\ c.src \notin c.pre.sources) => Raised(c, "FileNotFoundError")

\* C15 witness: an add_file has failed at its transfer for a key without a
\* row, beside the row of a key whose add moved the source file away.
C15_Witness ==
    \E t \in Finished("add_file") :
        /\ Raised(call[t], "FileNotFoundError")
        /\ table # {}
        /\ call[t].pre.sources # {}

\* C16: constructing a Cache again for a table and a folder that exist, in
\* any reachable state, raises nothing, does not create the table again,
\* and leaves every row and every file as it was; get_file_path gives for
\* every key what it gave before.
C16_InitIdempotent ==
    \A t \in Finished("__init__") :
        /\ call[t].ret = PyNone
        /\ table = call[t].pre.table
        /\ folder = call[t].pre.folder
        /\ \A k \in Keys : get_file_path(table, k) = get_file_path(call[t].pre.table, k)

\* C16 witness: a Cache has been constructed again while the table has two
\* rows, the folder a file, and a mutating call of the other thread is
\* inside its body.
C16_Witness ==
    \E t \in Finished("__init__") :
        /\ Cardinality(table) >= 2
        /\ DOMAIN folder # {}
        /\ \E u \in Threads \ {t} : InBody(u)

\* C17: as long as no file has been removed from the folder by another
\* program, every row has its file in the folder whenever no mutating call
\* is inside its body; so a row without its file is there only after such a
\* removal.
C17_RowsHaveFiles ==
    (\A t \in Threads : ~InBody(t)) =>
        \A r \in table : r.file_name \in DOMAIN folder

\* C17 witness: a delete_file has removed an entry and returned, and the
\* table has other rows.
C17_Witness ==
    \E t \in Served("delete_file") :
        /\ HasRow(call[t].pre.table, call[t].key)
        /\ table # {}
        /\ \A u \in Threads : ~InBody(u)

\* C18: a row whose file is not in the folder (and was not there when the
\* running mutating call began) stays in the table for as long as the file
\* is not there: no step removes it, every served
\* delete_file, clear or delete_older_than that selected it has it in the
\* list it returns and leaves the row, and a served add_file of its key
\* raises the duplicate-key error.
C18_AtReturn ==
    /\ \A t \in Threads :
           (pc[t] = "done" /\ call[t].op \in Evictions
                           /\ ~Raised(call[t], "ProgrammingError")) =>
               \A r \in Selected(call[t]) :
                   r.file_name \notin DOMAIN call[t].pre.folder =>
                       /\ r \in table
                       /\ \E i \in DOMAIN call[t].ret.val :
                              call[t].ret.val[i][1] = r.key
    /\ \A t \in Served("add_file") :
           \A r \in call[t].pre.table :
               (r.key = call[t].key /\ r.file_name \notin DOMAIN call[t].pre.folder) =>
                   /\ Raised(call[t], "Key already exists")
                   /\ r \in table

C18_RowStays ==
    \A r \in table :
        (/\ r.file_name \notin DOMAIN folder
         /\ r.file_name \notin DOMAIN folder'
         /\ \A t \in Threads :
                InBody(t) => r.file_name \notin DOMAIN call[t].pre.folder) =>
            r \in table'

C18_StuckEntry == []C18_AtReturn /\ [][C18_RowStays]_vars

\* C18 witness: a delete_file of a key whose file another program removed
\* has returned the key in its list, and the row is still in the table.
C18_Witness ==
    \E t \in Served("delete_file") :
        /\ \E r \in table :
               r.key = call[t].key /\ r.file_name \notin DOMAIN call[t].pre.folder
        /\ Len(call[t].ret.val) = 1
        /\ call[t].ret.val[1][1] = call[t].key

\* C19: a row never changes: in every step a row of the table is in the
\* table after the step, with its file_name and timestamp, or its key has
\* no row any more and the step is the last step of a delete_file, clear or
\* delete_older_than.
C19_RowUnchanged ==
    \A r \in table :
        IF HasRow(table', r.key)
        THEN r \in table'
        ELSE \E t \in Threads :
                 /\ call[t].op \in Evictions
                 /\ pc[t] = "del_remove"
                 /\ pc'[t] = "done"

C19_RowImmutable == [][C19_RowUnchanged]_vars

\* C19 witness: a delete_file has removed the entry of one key, and the row
\* of another key, added at an earlier time, is in the table as it was.
C19_Witness ==
    \E t \in Served("delete_file") :
        /\ HasRow(call[t].pre.table, call[t].key)
        /\ ~HasRow(table, call[t].key)
        /\ \E r \in table :
               r \in call[t].pre.table /\ r.timestamp.local - r.timestamp.off < now

\* C20: a thread that is not inside the with block of a mutating call does
\* not hold the lock, whether its call returned or raised; a thread enters
\* the block only when no thread holds the lock, itself included; and under
\* fair scheduling every call that is inside the block comes to its end, so
\* the lock is free again and no state is a deadlock.
C20_LockWithBody ==
    /\ lock \in Threads \cup {Free}
    /\ \A t \in Threads : (lock = t) <=> InBody(t)

C20_EntersWhenFree ==
    \A t \in Threads : (~InBody(t) /\ InBody(t)') => lock = Free

C20_LockReleased ==
    /\ []C20_LockWithBody
    /\ [][C20_EntersWhenFree]_vars
    /\ \A t \in Threads : InBody(t) ~> (pc[t] = "done" /\ lock = Free)

\* C20 witness: an add_file has raised FileNotFoundError inside the with
\* block, its source moved away by an earlier add, and the lock is free.
C20_Witness ==
    \E t \in Finished("add_file") :
        /\ Raised(call[t], "FileNotFoundError")
        /\ lock = Free
        /\ table # {}

====
